---- MODULE Spec2Model ----
(***************************************************************************)
(* A model of ethically.we.core.BiasWordsEmbedding: identification of a    *)
(* bias direction in a words embedding, the bias measures that read it,    *)
(* the neutralize / equalize debiasing of the embedding, and the training  *)
(* set of learn_full_specific_words.                                       *)
(*                                                                         *)
(* Floats are fixed-point integers: the float x is the integer             *)
(* round(x * Scale).  NaN and the infinities are three integers outside    *)
(* the range of every other value, and every operation propagates them as  *)
(* IEEE arithmetic does.  A vector is a tuple of floats.                   *)
(***************************************************************************)
EXTENDS Integers, Sequences, FiniteSets, TLC

\* ------------------------------------------------------------------ bounds
Scale == 1000          \* fixed-point unit: the float 1.0
Tol == 3               \* rounding tolerance of "approximately equal", in 1/Scale
MaxCalls == 2          \* calls of the public API in one behaviour
MaxPairs == 2          \* definitional pairs in one identification
MaxNeutral == 2        \* words in one neutral_words list
MaxSets == 1           \* equality sets in one debias call
MaxCap == 1            \* largest max_non_specific_examples tried, the default aside
MaxVocab == 2          \* words of the embedding's vocabulary

\* --------------------------------------------------------------- constants
DIRECTION_METHODS == {"single", "sum", "pca"}
DEBIAS_METHODS == {"neutralize", "hard", "soft"}
FIRST_PC_THRESHOLD == Scale \div 2
MAX_NON_SPECIFIC_EXAMPLES == 1000

\* ------------------------------------------------------------- IEEE floats
NaN == 0 - 900000000
NegInf == 0 - 800000000
PosInf == 0 - NegInf

IsNaN(a) == a = NaN
IsFinite(a) == a # NaN /\ a # PosInf /\ a # NegInf

Abs(a) == IF a < 0 THEN 0 - a ELSE a

\* a / b for integers a and b > 0, rounded to nearest, symmetric around 0
RDiv(a, b) == IF a >= 0 THEN (2 * a + b) \div (2 * b)
                        ELSE 0 - ((2 * (0 - a) + b) \div (2 * b))

RECURSIVE SqrtIter(_, _)
SqrtIter(n, x) ==
    LET y == (x + n \div x) \div 2
    IN  IF y >= x THEN x ELSE SqrtIter(n, y)

\* the integer nearest to the square root of n >= 0
ISqrt(n) ==
    IF n = 0 THEN 0
    ELSE LET r == SqrtIter(n, n)
         IN  IF n - r * r > r THEN r + 1 ELSE r

FNeg(a) == IF IsNaN(a) THEN NaN
           ELSE IF a = PosInf THEN NegInf
           ELSE IF a = NegInf THEN PosInf
           ELSE 0 - a

FAdd(a, b) == IF IsNaN(a) \/ IsNaN(b) THEN NaN
              ELSE IF ~IsFinite(a) THEN (IF ~IsFinite(b) /\ a # b THEN NaN ELSE a)
              ELSE IF ~IsFinite(b) THEN b
              ELSE a + b

FSub(a, b) == FAdd(a, FNeg(b))

FAbs(a) == IF IsNaN(a) THEN NaN
           ELSE IF ~IsFinite(a) THEN PosInf
           ELSE Abs(a)

FSign(a) == IF a > 0 THEN 1 ELSE IF a < 0 THEN 0 - 1 ELSE 0

FMul(a, b) == IF IsNaN(a) \/ IsNaN(b) THEN NaN
              ELSE IF ~IsFinite(a) \/ ~IsFinite(b)
                   THEN (IF a = 0 \/ b = 0 THEN NaN
                         ELSE IF FSign(a) * FSign(b) > 0 THEN PosInf ELSE NegInf)
              ELSE RDiv(a * b, Scale)

\* numpy division: x / 0 is an infinity or, for x = 0, NaN (a warning, no error)
FDiv(a, b) == IF IsNaN(a) \/ IsNaN(b) THEN NaN
              ELSE IF ~IsFinite(a) /\ ~IsFinite(b) THEN NaN
              ELSE IF ~IsFinite(b) THEN 0
              ELSE IF ~IsFinite(a)
                   THEN (IF FSign(a) * (IF b < 0 THEN 0 - 1 ELSE 1) > 0
                         THEN PosInf ELSE NegInf)
              ELSE IF b = 0
                   THEN (IF a = 0 THEN NaN ELSE IF a > 0 THEN PosInf ELSE NegInf)
              ELSE IF b > 0 THEN RDiv(a * Scale, b)
              ELSE 0 - RDiv(a * Scale, 0 - b)

\* numpy sqrt: NaN for a negative argument (a warning, no error)
FSqrt(a) == IF IsNaN(a) \/ a = NegInf THEN NaN
            ELSE IF a = PosInf THEN PosInf
            ELSE IF a < 0 THEN NaN
            ELSE ISqrt(a * Scale)

\* a < b: false when either side is NaN
FLt(a, b) == ~IsNaN(a) /\ ~IsNaN(b) /\ a < b

\* --------------------------------------------------------- numpy vectors
\* the embedding has two dimensions: a vector is a pair of floats
VecHasNaN(v) == ~IsFinite(v[1]) \/ ~IsFinite(v[2])

VAdd(u, v) == <<FAdd(u[1], v[1]), FAdd(u[2], v[2])>>
VSub(u, v) == <<FSub(u[1], v[1]), FSub(u[2], v[2])>>
VNeg(v) == <<FNeg(v[1]), FNeg(v[2])>>
VScale(a, v) == <<FMul(a, v[1]), FMul(a, v[2])>>
VDivScalar(v, a) == <<FDiv(v[1], a), FDiv(v[2], a)>>

\* u @ v
Dot(u, v) == IF VecHasNaN(u) \/ VecHasNaN(v) THEN NaN
             ELSE RDiv(u[1] * v[1] + u[2] * v[2], Scale)

\* np.linalg.norm(v)
Norm(v) == IF VecHasNaN(v) THEN NaN ELSE ISqrt(v[1] * v[1] + v[2] * v[2])

\* ------------------------------------------------------------------ state
VARIABLES
    model,          \* self.model: the vector of every word of the vocabulary
    direction,      \* self.direction, None before identification
    positive_end,   \* self.positive_end
    negative_end,   \* self.negative_end
    zero_norm,      \* what normalize does with a zero vector in this build
    copied,         \* the object copy.deepcopy(self) made for debias(inplace=False)
    pc,             \* position of the running debias call
    frame,          \* locals of the running debias call
    events,         \* store updates of the running or last debias call, in order
    pre,            \* self as it was when the running or last call began
    last,           \* the last finished call: operation, arguments, outcome
    calls           \* calls made so far

vars == <<model, direction, positive_end, negative_end, zero_norm, copied, pc,
          frame, events, pre, last, calls>>

\* None, for a vector and for a word
NoVector == <<>>
None == "None"

\* the value of a vector-valued call that raised
Raised == <<"raised">>

\* model.vocab in enumeration order, and a word that is not in it
AllWords == <<"he", "she", "doctor", "nurse", "boy", "girl">>
vocab == SubSeq(AllWords, 1, MaxVocab)
Vocab == {vocab[i] : i \in 1..Len(vocab)}
Unknown == "unk"
Words == Vocab \cup {Unknown}

\* ----------------------------------------------- utils.py (GeometryOps)
\* normalize(v): v / ||v||; on a zero vector it raises, returns v, or divides
normalize(v) ==
    LET norm == Norm(v)
    IN  IF norm = 0 /\ zero_norm = "raise" THEN Raised
        ELSE IF norm = 0 /\ zero_norm = "same" THEN v
        ELSE VDivScalar(v, norm)

cosine_similarity(v, u) == FDiv(Dot(v, u), FMul(Norm(v), Norm(u)))

project_vector(v, d) == VScale(Dot(v, d), d)

reject_vector(v, d) == VSub(v, project_vector(v, d))

project_reject_vector(v, d) ==
    LET projected == project_vector(v, d)
    IN  <<projected, VSub(v, projected)>>

\* the store with the vector of word replaced
update_word_vector(m, word, new_vector) == [m EXCEPT ![word] = new_vector]

\* ------------------------------------------ gensim KeyedVectors (store)
\* word in self
Contains(m, word) == word \in DOMAIN m

\* self[word] of a word of the store
GetItem(m, word) == m[word]

\* model.init_sims(replace=True): every vector divided by its norm in place
init_sims(m) == [w \in DOMAIN m |-> VDivScalar(m[w], Norm(m[w]))]

\* model.cosine_similarities(vector_1, [vector])[0]
cosine_similarities(vector_1, vector) ==
    FDiv(Dot(vector, vector_1), FMul(Norm(vector_1), Norm(vector)))

\* --------------------------------------------------- sequences of words
RECURSIVE FirstTrue(_, _)
\* the first position of bs, from i on, that holds TRUE; 0 if none
FirstTrue(bs, i) ==
    IF i > Len(bs) THEN 0
    ELSE IF bs[i] THEN i
    ELSE FirstTrue(bs, i + 1)

\* the position of the first word of ws that Bad holds of; 0 if none
FirstBad(ws, Bad(_)) == FirstTrue([i \in 1..Len(ws) |-> Bad(ws[i])], 1)

RECURSIVE VSum(_, _, _)
\* np.sum([m[word] for word in ws], axis=0), from position i on
VSum(m, ws, i) ==
    IF i = Len(ws) THEN m[ws[i]]
    ELSE VAdd(m[ws[i]], VSum(m, ws, i + 1))

RECURSIVE Flatten(_)
Flatten(pairs) ==
    IF pairs = <<>> THEN <<>>
    ELSE <<pairs[1][1], pairs[1][2]>> \o Flatten(Tail(pairs))

\* ------------------------------------------------- _identify_direction
\* what sklearn's PCA(n_components=10).fit may answer: it raises, or gives the
\* explained variance ratio and the first principal component (a unit vector
\* of either sign: "we cannot control what the PCA will return")
PcaOutcomes ==
    {[fit |-> "raise", ratio |-> 0, component |-> NoVector],
     [fit |-> "ok", ratio |-> FIRST_PC_THRESHOLD - 1, component |-> <<Scale, 0>>],
     [fit |-> "ok", ratio |-> FIRST_PC_THRESHOLD,
      component |-> <<0 - (3 * Scale) \div 5, 0 - (4 * Scale) \div 5>>]}

Outcome(err, dir, nreads, rawdir, proj) ==
    [error |-> err, direction |-> dir, reads |-> nreads, raw |-> rawdir,
     ends_diff_projection |-> proj]

\* the calibration without lines 161-162: the raw direction is kept as it is
CalibrateUnsigned(m, pos, neg, raw, nreads) ==
    IF ~Contains(m, pos) THEN Outcome("KeyError", NoVector, nreads + 1, raw, NaN)
    ELSE IF ~Contains(m, neg) THEN Outcome("KeyError", NoVector, nreads + 2, raw, NaN)
    ELSE Outcome("", raw, nreads + 2, raw,
                 cosine_similarity(VSub(GetItem(m, pos), GetItem(m, neg)), raw))

\* if direction is oposite: the sign calibration and the three assignments
Calibrate(m, pos, neg, raw, nreads) ==
    IF ~Contains(m, pos) THEN Outcome("KeyError", NoVector, nreads + 1, raw, NaN)
    ELSE IF ~Contains(m, neg) THEN Outcome("KeyError", NoVector, nreads + 2, raw, NaN)
    ELSE LET ends_diff_projection ==
                 cosine_similarity(VSub(GetItem(m, pos), GetItem(m, neg)), raw)
         IN  Outcome("", IF FLt(ends_diff_projection, 0) THEN VNeg(raw) ELSE raw,
                     nreads + 2, raw, ends_diff_projection)

\* method == 'single'
DirectionSingle(m, pos, neg, definitional) ==
    LET w0 == definitional[1]
        w1 == definitional[2]
    IN  IF ~Contains(m, w0) THEN Outcome("KeyError", NoVector, 1, NoVector, NaN)
        ELSE IF normalize(GetItem(m, w0)) = Raised
             THEN Outcome("ZeroNorm", NoVector, 1, NoVector, NaN)
        ELSE IF ~Contains(m, w1) THEN Outcome("KeyError", NoVector, 2, NoVector, NaN)
        ELSE IF normalize(GetItem(m, w1)) = Raised
             THEN Outcome("ZeroNorm", NoVector, 2, NoVector, NaN)
        ELSE LET diff == VSub(normalize(GetItem(m, w0)), normalize(GetItem(m, w1)))
             IN  IF normalize(diff) = Raised
                 THEN Outcome("ZeroNorm", NoVector, 2, NoVector, NaN)
                 ELSE Calibrate(m, pos, neg, normalize(diff), 2)

\* method == 'sum'
DirectionSum(m, pos, neg, definitional) ==
    LET group1 == [i \in 1..Len(definitional) |-> definitional[i][1]]
        group2 == [i \in 1..Len(definitional) |-> definitional[i][2]]
        Absent(w) == ~Contains(m, w)
        bad == FirstBad(group1 \o group2, Absent)
    IN  IF bad # 0 THEN Outcome("KeyError", NoVector, bad, NoVector, NaN)
        ELSE LET n == 2 * Len(definitional)
                 group1_sum_vector == VSum(m, group1, 1)
                 group2_sum_vector == VSum(m, group2, 1)
             IN  IF \/ normalize(group1_sum_vector) = Raised
                    \/ normalize(group2_sum_vector) = Raised
                 THEN Outcome("ZeroNorm", NoVector, n, NoVector, NaN)
                 ELSE LET diff_vector == VSub(normalize(group1_sum_vector),
                                              normalize(group2_sum_vector))
                      IN  IF normalize(diff_vector) = Raised
                          THEN Outcome("ZeroNorm", NoVector, n, NoVector, NaN)
                          ELSE Calibrate(m, pos, neg, normalize(diff_vector), n)

\* method == 'pca', with _identify_subspace_by_pca
DirectionPca(m, pos, neg, definitional, pca) ==
    LET ws == Flatten(definitional)
        Absent(w) == ~Contains(m, w)
        Fails(w) == Absent(w) \/ normalize(GetItem(m, w)) = Raised
        bad == FirstBad(ws, Fails)
        matrixHasNaN == \E i \in 1..Len(ws) : VecHasNaN(normalize(GetItem(m, ws[i])))
    IN  IF bad # 0
        THEN Outcome(IF Absent(ws[bad]) THEN "KeyError" ELSE "ZeroNorm",
                     NoVector, bad, NoVector, NaN)
        ELSE IF matrixHasNaN \/ pca.fit = "raise"
             THEN Outcome("ValueError:pca", NoVector, Len(ws), NoVector, NaN)
        ELSE IF pca.ratio < FIRST_PC_THRESHOLD
             THEN Outcome("RuntimeError:variance", NoVector, Len(ws), NoVector, NaN)
        ELSE Calibrate(m, pos, neg, pca.component, Len(ws))

\* method not in DIRECTION_METHODS
MethodRejected(method) == method \notin DIRECTION_METHODS

\* _identify_direction without its check of the ends
EndsAccepted(pos, neg) == FALSE

\* positive_end == negative_end
EndsRejected(pos, neg) == pos = neg

_identify_direction(m, pos, neg, definitional, method, pca) ==
    IF MethodRejected(method)
    THEN Outcome("ValueError:method", NoVector, 0, NoVector, NaN)
    ELSE IF EndsRejected(pos, neg)
    THEN Outcome("ValueError:ends", NoVector, 0, NoVector, NaN)
    ELSE IF method = "single" THEN DirectionSingle(m, pos, neg, definitional)
    ELSE IF method = "sum" THEN DirectionSum(m, pos, neg, definitional)
    ELSE DirectionPca(m, pos, neg, definitional, pca)

\* ------------------------------------------------------------- inputs
\* vectors an embedding may hold: unit and not, parallel and not
InitVectors ==
    {<<Scale, 0>>, <<0 - Scale, 0>>, <<(6 * Scale) \div 5, (8 * Scale) \div 5>>}

\* lists of at most n elements of S, the empty one excluded
SeqsUpTo(S, n) == UNION {[1..k -> S] : k \in 1..n}

\* the (positive_end, negative_end) arguments tried
EndInputs ==
    {<<vocab[1], vocab[2]>>, <<vocab[1], vocab[1]>>, <<vocab[2], Unknown>>}

\* the definitional pairs tried
PairInputs == {<<vocab[1], vocab[2]>>, <<vocab[2], vocab[1]>>, <<vocab[1], Unknown>>}

\* the neutral_words lists tried: every list of at most MaxNeutral words
NeutralInputs == {<<>>} \cup SeqsUpTo(Words, MaxNeutral)

\* the equality_sets lists tried
EqualityInputs ==
    {<<>>} \cup SeqsUpTo({<<vocab[1], vocab[2]>>, <<vocab[1], Unknown>>}, MaxSets)

\* ---------------------------------------------------- the last call
NoCall ==
    [op |-> "none", error |-> "", method |-> "", pos |-> None, neg |-> None,
     inplace |-> TRUE, reads |-> 0, value |-> 0, raw |-> NoVector,
     ends_diff_projection |-> NaN, table |-> <<>>, data |-> <<>>,
     seed |-> {}, cap |-> 0]

NoCopy ==
    [exists |-> FALSE, aliased |-> FALSE, model |-> <<>>, direction |-> NoVector,
     positive_end |-> None, negative_end |-> None]

NoFrame ==
    [method |-> "", inplace |-> TRUE, neutral_words |-> <<>>,
     equality_sets |-> <<>>, eq_set |-> <<>>, eq_vectors |-> <<>>,
     eq_rejected_center |-> NoVector]

Self == [model |-> model, direction |-> direction,
         positive_end |-> positive_end, negative_end |-> negative_end]

\* __init__: no direction, no ends
Init ==
    /\ model \in [Vocab -> InitVectors]
    /\ direction = NoVector
    /\ positive_end = None
    /\ negative_end = None
    /\ zero_norm \in {"raise", "same", "nan"}
    /\ copied = NoCopy
    /\ pc = "idle"
    /\ frame = NoFrame
    /\ events = <<>>
    /\ pre = [model |-> model, direction |-> NoVector,
              positive_end |-> None, negative_end |-> None]
    /\ last = NoCall
    /\ calls = 0

\* a call of the public API can begin: the object is idle and within the bound
CallEnabled == pc = "idle" /\ calls < MaxCalls

\* A call begins.  The bound on a behaviour: a call that leaves self as it was
\* is the last call explored, since a call after it starts from the same self.
CallBegins(changes) ==
    /\ CallEnabled
    /\ calls' = IF changes THEN calls + 1 ELSE MaxCalls
    /\ pre' = Self

\* _identify_direction(positive_end, negative_end, definitional, method)
IdentifyWith(pos, neg, definitional, method, pca) ==
    \E r \in {_identify_direction(model, pos, neg, definitional, method, pca)} :
        /\ CallBegins(r.error = "")
        /\ direction' = IF r.error = "" THEN r.direction ELSE direction
        /\ positive_end' = IF r.error = "" THEN pos ELSE positive_end
        /\ negative_end' = IF r.error = "" THEN neg ELSE negative_end
        /\ last' = [NoCall EXCEPT !.op = "identify", !.error = r.error,
                                  !.method = method, !.pos = pos, !.neg = neg,
                                  !.reads = r.reads, !.raw = r.raw,
                                  !.ends_diff_projection = r.ends_diff_projection]
        /\ UNCHANGED <<model, zero_norm, copied, pc, frame, events>>

NoPca == [fit |-> "raise", ratio |-> 0, component |-> NoVector]

Identify ==
    /\ CallEnabled
    /\ \E ends \in EndInputs :
        \/ \E definitional \in PairInputs :
               IdentifyWith(ends[1], ends[2], definitional, "single", NoPca)
        \/ \E definitional \in SeqsUpTo(PairInputs, MaxPairs) :
               \/ \E method \in {"sum", "svd"} :
                      IdentifyWith(ends[1], ends[2], definitional, method, NoPca)
               \/ \E pca \in PcaOutcomes :
                      IdentifyWith(ends[1], ends[2], definitional, "pca", pca)

\* ----------------------------------------------------- bias measures
\* _is_direction_identified: TRUE when it returns, FALSE when it raises
_is_direction_identified(dir) == dir # NoVector

Answer(err, val, tab) == [error |-> err, value |-> val, table |-> tab]

project_on_direction(m, dir, word) ==
    IF ~_is_direction_identified(dir) THEN Answer("RuntimeError:direction", NaN, <<>>)
    ELSE IF ~Contains(m, word) THEN Answer("KeyError", NaN, <<>>)
    ELSE Answer("", cosine_similarities(dir, GetItem(m, word)), <<>>)

\* a row goes before another when its projection is larger; NaN rows go last
Before(r1, r2) == ~IsNaN(r1[2]) /\ (IsNaN(r2[2]) \/ r1[2] > r2[2])

RECURSIVE InsertRow(_, _)
InsertRow(row, table) ==
    IF table = <<>> THEN <<row>>
    ELSE IF Before(row, Head(table)) THEN <<row>> \o table
    ELSE <<Head(table)>> \o InsertRow(row, Tail(table))

RECURSIVE SortValues(_)
\* df.sort_values('projection', ascending=False)
SortValues(table) ==
    IF table = <<>> THEN <<>>
    ELSE InsertRow(Head(table), SortValues(Tail(table)))

_calc_projection_scores(m, dir, words) ==
    LET Absent(w) == ~Contains(m, w)
    IN  IF ~_is_direction_identified(dir)
        THEN Answer("RuntimeError:direction", NaN, <<>>)
        ELSE IF FirstBad(words, Absent) # 0 THEN Answer("KeyError", NaN, <<>>)
        ELSE Answer("", NaN,
                    SortValues([i \in 1..Len(words) |->
                        <<words[i], project_on_direction(m, dir, words[i]).value>>]))

RECURSIVE SumTerms(_, _, _)
\* (np.abs(projections) ** c).sum(): pandas leaves the NaN terms out
SumTerms(table, i, c) ==
    IF i > Len(table) THEN 0
    ELSE LET a == FAbs(table[i][2])
             term == IF c = 1 THEN a ELSE FMul(a, a)
         IN  IF IsNaN(term) THEN SumTerms(table, i + 1, c)
             ELSE FAdd(term, SumTerms(table, i + 1, c))

calc_direct_bias(m, dir, neutral_words, c) ==
    LET scores == _calc_projection_scores(m, dir, neutral_words)
    IN  IF scores.error # "" THEN scores
        ELSE Answer("", FDiv(SumTerms(scores.table, 1, c), Len(neutral_words) * Scale),
                    <<>>)

calc_indirect_bias(m, dir, word1, word2) ==
    IF ~_is_direction_identified(dir) THEN Answer("RuntimeError:direction", NaN, <<>>)
    ELSE IF ~Contains(m, word1) THEN Answer("KeyError", NaN, <<>>)
    ELSE IF normalize(GetItem(m, word1)) = Raised THEN Answer("ZeroNorm", NaN, <<>>)
    ELSE IF ~Contains(m, word2) THEN Answer("KeyError", NaN, <<>>)
    ELSE IF normalize(GetItem(m, word2)) = Raised THEN Answer("ZeroNorm", NaN, <<>>)
    ELSE LET vector1 == normalize(GetItem(m, word1))
             vector2 == normalize(GetItem(m, word2))
             perpendicular_vector1 == reject_vector(vector1, dir)
             perpendicular_vector2 == reject_vector(vector2, dir)
             inner_product == Dot(vector1, vector2)
             perpendicular_similarity ==
                 cosine_similarity(perpendicular_vector1, perpendicular_vector2)
         IN  Answer("", FDiv(FSub(inner_product, perpendicular_similarity),
                             inner_product), <<>>)

\* a measure is called and answers: the object is left as it was
Measured(op, r) ==
    /\ CallBegins(FALSE)
    /\ last' = [NoCall EXCEPT !.op = op, !.error = r.error, !.value = r.value,
                              !.table = r.table]
    /\ UNCHANGED <<model, direction, positive_end, negative_end, zero_norm, copied,
                   pc, frame, events>>

ProjectOnDirection ==
    /\ CallEnabled
    /\ \E word \in Words :
           \E r \in {project_on_direction(model, direction, word)} :
               Measured("project_on_direction", r)

CalcProjectionScores ==
    /\ CallEnabled
    /\ \E words \in SeqsUpTo(Words, MaxNeutral) :
           \E r \in {_calc_projection_scores(model, direction, words)} :
               Measured("_calc_projection_scores", r)

CalcDirectBias ==
    /\ CallEnabled
    /\ \E neutral_words \in SeqsUpTo(Words, MaxNeutral), c \in {1, 2} :
           \E r \in {calc_direct_bias(model, direction, neutral_words, c)} :
               Measured("calc_direct_bias", r)

CalcIndirectBias ==
    /\ CallEnabled
    /\ \E word1 \in Words, word2 \in Words :
           \E r \in {calc_indirect_bias(model, direction, word1, word2)} :
               Measured("calc_indirect_bias", r)

\* ----------------------------------------------------------- copying
\* __copy__: a new object on the same store (self.model is shared, not copied)
Copy(self) ==
    [exists |-> TRUE, aliased |-> TRUE, model |-> self.model,
     direction |-> self.direction, positive_end |-> self.positive_end,
     negative_end |-> self.negative_end]

\* __deepcopy__ without line 64: the copy keeps the store of the original
DeepCopyShared(self) == Copy(self)

\* __deepcopy__: the copy, with a store of its own
DeepCopy(self) == [Copy(self) EXCEPT !.aliased = FALSE]

\* ------------------------------------------------------------- debias
\* bias_words_embedding of the running call: self, or the copy
Target == IF frame.inplace THEN Self ELSE copied

\* the store bias_words_embedding.model refers to
TargetModel == IF frame.inplace \/ copied.aliased THEN model ELSE copied.model

\* an assignment into the store bias_words_embedding.model refers to
WriteTarget(m) ==
    IF frame.inplace \/ copied.aliased
    THEN /\ model' = m
         /\ copied' = IF frame.inplace THEN copied ELSE [copied EXCEPT !.model = m]
    ELSE /\ copied' = [copied EXCEPT !.model = m]
         /\ UNCHANGED model

\* debias without its check of the method name
DebiasMethodAccepted(method) == FALSE

\* method not in DEBIAS_METHODS
DebiasMethodRejected(method) == method \notin DEBIAS_METHODS

\* the step debias runs first, "" when it runs none
FirstStep(method) == IF method \in {"hard", "neutralize"} THEN "neutralize" ELSE ""

\* debias running _equalize whatever the method
StepAfterNeutralizeAlways(method) == "equalize"

\* the step debias runs after _neutralize, "" when it runs none
StepAfterNeutralize(method) == IF method = "hard" THEN "equalize" ELSE ""

DebiasLast(err) ==
    [NoCall EXCEPT !.op = "debias", !.error = err, !.method = frame.method,
                   !.inplace = frame.inplace]

\* debias raises: the call ends, and the copy it made is dropped with its frame
Raise(err) ==
    /\ pc' = "idle"
    /\ last' = DebiasLast(err)

\* debias returns None, or bias_words_embedding
Return ==
    /\ pc' = "idle"
    /\ last' = DebiasLast("")

\* debias with _neutralize not asking whether the direction was identified
DebiasErrorUnchecked(method, dir) ==
    IF method \notin DEBIAS_METHODS THEN "ValueError:method" ELSE ""

\* what debias raises before the first turn of a loop, "" if nothing
DebiasError(method, dir) ==
    IF DebiasMethodRejected(method) THEN "ValueError:method"
    ELSE IF FirstStep(method) = "neutralize" /\ ~_is_direction_identified(dir)
         THEN "RuntimeError:direction"
    ELSE ""

\* debias(method, neutral_words, equality_sets, inplace), up to its first step
DebiasCall(method, neutral_words, equality_sets, inplace) ==
    LET bias_words_embedding == IF inplace THEN Self ELSE DeepCopy(Self)
        step == FirstStep(method)
        err == DebiasError(method, bias_words_embedding.direction)
    IN  /\ CallBegins(inplace /\ err = "" /\ step # "")
        /\ frame' = [NoFrame EXCEPT !.method = method, !.inplace = inplace,
                                    !.neutral_words = neutral_words,
                                    !.equality_sets = equality_sets]
        /\ events' = <<>>
        /\ copied' = IF inplace \/ err # "" THEN NoCopy ELSE bias_words_embedding
        /\ pc' = IF err = "" /\ step # "" THEN step ELSE "idle"
        /\ last' = IF err = "" /\ step # ""
                   THEN [NoCall EXCEPT !.op = "debias running"]
                   ELSE [NoCall EXCEPT !.op = "debias", !.error = err,
                                       !.method = method, !.inplace = inplace]
        /\ UNCHANGED <<model, direction, positive_end, negative_end, zero_norm>>

Debias ==
    /\ CallEnabled
    /\ \E inplace \in BOOLEAN :
        \/ \E method \in {"soft", "svd"} : DebiasCall(method, <<>>, <<>>, inplace)
        \/ \E neutral_words \in NeutralInputs :
               \/ DebiasCall("neutralize", neutral_words, <<>>, inplace)
               \/ \E equality_sets \in EqualityInputs :
                      DebiasCall("hard", neutral_words, equality_sets, inplace)

\* _neutralize keeping the component along the direction, not the rest
NeutralizedVectorProjected(vector, dir) == project_vector(vector, dir)

\* the vector _neutralize gives a word
NeutralizedVector(vector, dir) == reject_vector(vector, dir)

\* _neutralize filtering its list as _filter_words_by_model does: a word
\* absent from the store is passed over
NeutralizeWordSkipping ==
    /\ pc = "neutralize"
    /\ frame.neutral_words # <<>>
    /\ LET word == Head(frame.neutral_words)
       IN  IF ~Contains(TargetModel, word)
           THEN /\ frame' = [frame EXCEPT !.neutral_words = Tail(@)]
                /\ UNCHANGED <<model, copied, events, pc, last>>
           ELSE /\ \E neutralized_vector \in
                        {NeutralizedVector(GetItem(TargetModel, word), Target.direction)} :
                      WriteTarget(update_word_vector(TargetModel, word,
                                                     neutralized_vector))
                /\ frame' = [frame EXCEPT !.neutral_words = Tail(@)]
                /\ events' = Append(events, <<"neutralize", word>>)
                /\ UNCHANGED <<pc, last>>
    /\ UNCHANGED <<direction, positive_end, negative_end, zero_norm, pre, calls>>

\* _neutralize: one turn of its loop
NeutralizeWord ==
    /\ pc = "neutralize"
    /\ frame.neutral_words # <<>>
    /\ LET word == Head(frame.neutral_words)
       IN  IF ~Contains(TargetModel, word)
           THEN /\ Raise("KeyError")
                /\ copied' = NoCopy
                /\ UNCHANGED <<model, frame, events>>
           ELSE /\ \E neutralized_vector \in
                        {NeutralizedVector(GetItem(TargetModel, word), Target.direction)} :
                      WriteTarget(update_word_vector(TargetModel, word,
                                                     neutralized_vector))
                /\ frame' = [frame EXCEPT !.neutral_words = Tail(@)]
                /\ events' = Append(events, <<"neutralize", word>>)
                /\ UNCHANGED <<pc, last>>
    /\ UNCHANGED <<direction, positive_end, negative_end, zero_norm, pre, calls>>

\* _neutralize: after its loop, self.model.init_sims(replace=True)
NeutralizeInitSims ==
    /\ pc = "neutralize"
    /\ frame.neutral_words = <<>>
    /\ WriteTarget(init_sims(TargetModel))
    /\ events' = Append(events, <<"init_sims", "">>)
    /\ IF StepAfterNeutralize(frame.method) = ""
       THEN Return
       ELSE pc' = StepAfterNeutralize(frame.method) /\ UNCHANGED last
    /\ UNCHANGED <<direction, positive_end, negative_end, zero_norm, frame, pre,
                   calls>>

\* np.mean(vectors, axis=0)
RECURSIVE SumVectors(_, _)
SumVectors(vectors, i) ==
    IF i = Len(vectors) THEN vectors[i]
    ELSE VAdd(vectors[i], SumVectors(vectors, i + 1))

Mean(vectors) == VDivScalar(SumVectors(vectors, 1), Len(vectors) * Scale)

\* _equalize forgetting the scaling
EqualizedVectorUnscaled(rejected_center, scaling, projected_part) ==
    VAdd(rejected_center, projected_part)

\* the vector _equalize gives a word
EqualizedVector(rejected_center, scaling, projected_part) ==
    VAdd(rejected_center, VScale(scaling, projected_part))

\* np.sqrt(1 - np.linalg.norm(rejected_center)**2)
Scaling(rejected_center) ==
    FSqrt(FSub(Scale, FMul(Norm(rejected_center), Norm(rejected_center))))

\* the inner loop of _equalize from word i on: the store and the events it
\* leaves, and the error that ended it, "" if none
RECURSIVE EqualizeWords(_, _, _, _, _, _, _, _)
EqualizeWords(m, log, words, vectors, i, projected_center, rejected_center, dir) ==
    IF i > Len(words) THEN [model |-> m, events |-> log, error |-> ""]
    ELSE LET projected_vector == project_vector(vectors[i], dir)
             projected_part == normalize(VSub(projected_vector, projected_center))
             scaling == Scaling(rejected_center)
             equalized_vector == EqualizedVector(rejected_center, scaling,
                                                 projected_part)
         IN  IF projected_part = Raised
             THEN [model |-> m, events |-> log, error |-> "ZeroNorm"]
             ELSE EqualizeWords(update_word_vector(m, words[i], equalized_vector),
                                Append(log, <<"equalize", words[i]>>),
                                words, vectors, i + 1, projected_center,
                                rejected_center, dir)

\* _equalize: one turn of its outer loop
EqualizeSet ==
    /\ pc = "equalize"
    /\ frame.equality_sets # <<>>
    /\ LET equality_set_words == Head(frame.equality_sets)
           m == TargetModel
           Absent(w) == ~Contains(m, w)
           Fails(w) == Absent(w) \/ normalize(GetItem(m, w)) = Raised
           bad == FirstBad(equality_set_words, Fails)
       IN  IF bad # 0
           THEN /\ Raise(IF Absent(equality_set_words[bad])
                         THEN "KeyError" ELSE "ZeroNorm")
                /\ copied' = NoCopy
                /\ UNCHANGED <<model, frame, events>>
           ELSE LET equality_set_vectors ==
                        [i \in 1..Len(equality_set_words) |->
                            normalize(GetItem(m, equality_set_words[i]))]
                    center == Mean(equality_set_vectors)
                    parts == project_reject_vector(center, Target.direction)
                IN  \E r \in {EqualizeWords(m, events, equality_set_words,
                                            equality_set_vectors, 1, parts[1],
                                            parts[2], Target.direction)} :
                        /\ events' = r.events
                        /\ frame' = [frame EXCEPT
                                        !.equality_sets = Tail(@),
                                        !.eq_set = equality_set_words,
                                        !.eq_vectors = equality_set_vectors,
                                        !.eq_rejected_center = parts[2]]
                        /\ IF r.error = ""
                           THEN WriteTarget(r.model) /\ UNCHANGED <<pc, last>>
                           ELSE /\ Raise(r.error)
                                /\ IF frame.inplace \/ copied.aliased
                                   THEN model' = r.model ELSE UNCHANGED model
                                /\ copied' = NoCopy
    /\ UNCHANGED <<direction, positive_end, negative_end, zero_norm, pre, calls>>

\* _equalize: after its loop, self.model.init_sims(replace=True)
EqualizeInitSims ==
    /\ pc = "equalize"
    /\ frame.equality_sets = <<>>
    /\ WriteTarget(init_sims(TargetModel))
    /\ events' = Append(events, <<"init_sims", "">>)
    /\ Return
    /\ UNCHANGED <<direction, positive_end, negative_end, zero_norm, frame, pre,
                   calls>>

\* ------------------------------------------ learn_full_specific_words
RECURSIVE TrainingDataCapped(_, _, _, _)
\* the loop with the cap asked of every word: a seed word met once the cap
\* has been reached is dropped
TrainingDataCapped(i, seed_specific_words, max_non_specific_examples, count) ==
    IF i > Len(vocab) THEN <<>>
    ELSE LET word == vocab[i]
             is_specific == word \in seed_specific_words
             seen == IF is_specific THEN count ELSE count + 1
         IN  (IF seen <= max_non_specific_examples
              THEN <<<<word, is_specific>>>> ELSE <<>>)
             \o TrainingDataCapped(i + 1, seed_specific_words,
                                   max_non_specific_examples, seen)

RECURSIVE TrainingData(_, _, _, _)
\* the loop over self.model.vocab from word i on, non_specific_example_count
\* being count: the (word, is_specific) examples it appends to data
TrainingData(i, seed_specific_words, max_non_specific_examples, count) ==
    IF i > Len(vocab) THEN <<>>
    ELSE LET word == vocab[i]
             is_specific == word \in seed_specific_words
         IN  IF ~is_specific
             THEN (IF count + 1 <= max_non_specific_examples
                   THEN <<<<word, is_specific>>>> ELSE <<>>)
                  \o TrainingData(i + 1, seed_specific_words,
                                  max_non_specific_examples, count + 1)
             ELSE <<<<word, is_specific>>>>
                  \o TrainingData(i + 1, seed_specific_words,
                                  max_non_specific_examples, count)

\* what ends the training: nothing to unzip, a vector that cannot be
\* normalized, or examples of one class only (LinearSVC.fit needs two)
TrainingError(m, data) ==
    IF data = <<>> THEN "ValueError:empty"
    ELSE IF \E i \in 1..Len(data) : VecHasNaN(VDivScalar(m[data[i][1]],
                                                         Norm(m[data[i][1]])))
         THEN "ValueError:nan"
    ELSE IF \A i \in 1..Len(data) : data[i][2] = data[1][2]
         THEN "ValueError:classes"
    ELSE ""

\* the non-specific caps tried: None (the default) and the small ones
CapInputs == 0..MaxCap \cup {MAX_NON_SPECIFIC_EXAMPLES}

\* learn_full_specific_words(seed_specific_words, max_non_specific_examples):
\* the training set it builds; the classifier's answers are sklearn's
LearnFullSpecificWords ==
    /\ CallEnabled
    /\ \E seed_specific_words \in SUBSET Words, cap \in CapInputs :
           \E data \in {TrainingData(1, seed_specific_words, cap, 0)} :
               /\ CallBegins(FALSE)
               /\ last' = [NoCall EXCEPT !.op = "learn_full_specific_words",
                                         !.error = TrainingError(model, data),
                                         !.data = data,
                                         !.seed = seed_specific_words,
                                         !.cap = cap]
               /\ UNCHANGED <<model, direction, positive_end, negative_end,
                              zero_norm, copied, pc, frame, events>>

Next ==
    \/ Identify
    \/ ProjectOnDirection
    \/ CalcProjectionScores
    \/ CalcDirectBias
    \/ CalcIndirectBias
    \/ Debias
    \/ NeutralizeWord
    \/ NeutralizeInitSims
    \/ EqualizeSet
    \/ EqualizeInitSims
    \/ LearnFullSpecificWords

Spec == Init /\ [][Next]_vars

\* ================================================================ claims
Idle == pc = "idle"

\* the last call was op and it has ended
Ended(op) == Idle /\ last.op = op

\* self is as it was when the running or last call began
SelfUntouched ==
    /\ model = pre.model
    /\ direction = pre.direction
    /\ positive_end = pre.positive_end
    /\ negative_end = pre.negative_end

MEASURES == {"project_on_direction", "_calc_projection_scores",
             "calc_direct_bias", "calc_indirect_bias"}

\* C1: during and after a debias(inplace=False) call, whatever its method and
\* its lists, every vector of the original store, its direction and its ends
\* are what they were when the call began; what debias writes is in the copy.
C1_OriginalUntouched ==
    (~frame.inplace /\ (~Idle \/ last.op = "debias")) => SelfUntouched

\* a hard debias on a copy has ended, and the copy's store differs from self's
C1_Witness ==
    /\ Ended("debias") /\ last.error = "" /\ ~last.inplace
    /\ last.method = "hard" /\ frame.eq_set # <<>>
    /\ copied.exists /\ copied.model # model

\* C3: while the direction is unset, each measure and debias with method
\* neutralize or hard ends with the "direction was not identified" error,
\* answers nothing (no value, no table, no copy), changes no vector, and
\* never gets to a turn of a debias loop.
C3_DirectionNotIdentified ==
    /\ (Ended("debias") /\ last.method \in {"neutralize", "hard"}
            /\ pre.direction = NoVector)
        => /\ last.error = "RuntimeError:direction"
           /\ copied = NoCopy
           /\ events = <<>>
           /\ SelfUntouched
    /\ (Idle /\ last.op \in MEASURES /\ pre.direction = NoVector)
        => /\ last.error = "RuntimeError:direction"
           /\ IsNaN(last.value)
           /\ last.table = <<>>
           /\ SelfUntouched
    /\ ~Idle => pre.direction # NoVector

\* a hard debias on a copy was asked for before any identification
C3_Witness ==
    /\ Ended("debias") /\ last.method = "hard" /\ ~last.inplace
    /\ pre.direction = NoVector /\ direction = NoVector
    /\ last.error = "RuntimeError:direction"

\* C4: a method name outside DIRECTION_METHODS given to the identification, or
\* outside DEBIAS_METHODS given to debias (inplace or not), ends the call with
\* the method error and leaves the direction, the ends and every vector as
\* they were; debias gets to no turn of a loop and returns no copy.
C4_InvalidMethodRejected ==
    /\ (Ended("identify") /\ last.method \notin DIRECTION_METHODS)
        => last.error = "ValueError:method" /\ SelfUntouched
    /\ (Ended("debias") /\ last.method \notin DEBIAS_METHODS)
        => /\ last.error = "ValueError:method"
           /\ SelfUntouched
           /\ copied = NoCopy
           /\ events = <<>>
    /\ ~Idle => frame.method \in DEBIAS_METHODS

\* debias on a copy was given an unknown method after an identification
C4_Witness ==
    /\ Ended("debias") /\ last.method = "svd" /\ ~last.inplace
    /\ last.error = "ValueError:method" /\ direction # NoVector

\* C5: an identification whose positive_end equals its negative_end fails for
\* every method (with the ends error when the method is a valid one), reads
\* no vector, and leaves direction, positive_end and negative_end as they were.
C5_EqualEndsRejected ==
    (Ended("identify") /\ last.pos = last.neg)
        => /\ last.error = IF last.method \in DIRECTION_METHODS
                           THEN "ValueError:ends" ELSE "ValueError:method"
           /\ last.reads = 0
           /\ SelfUntouched

\* equal ends were given after a direction had been identified
C5_Witness ==
    /\ Ended("identify") /\ last.pos = last.neg
    /\ last.method \in DIRECTION_METHODS
    /\ pre.direction # NoVector /\ direction = pre.direction

\* the store debias worked on: self's, or the returned copy's
DebiasedStore == IF last.inplace THEN model ELSE copied.model

\* v has unit length, within the rounding tolerance
IsUnit(v) == ~VecHasNaN(v) /\ Abs(Norm(v) - Scale) <= Tol

\* a float is 0, within the rounding tolerance
NearZero(a) == IsFinite(a) /\ Abs(a) <= Tol

\* the tolerance of a result of debias: its vectors go through a chain of
\* eight rounded steps (normalize, mean, project, reject, sqrt, scale, add,
\* renormalize), each within Tol, under a direction that is unit within Tol
Accumulated == 8 * Tol

\* a float is 0, within the accumulated tolerance
Small(a) == IsFinite(a) /\ Abs(a) <= Accumulated

\* u and v are equal, within the accumulated tolerance
Alike(u, v) ==
    /\ ~VecHasNaN(u) /\ ~VecHasNaN(v)
    /\ Abs(u[1] - v[1]) <= Accumulated /\ Abs(u[2] - v[2]) <= Accumulated

DebiasReturned == Ended("debias") /\ last.error = ""

\* C2: after a debias call that returned, whatever its method, every vector
\* of the debiased store has unit length.
C2_AllUnitAfterDebias ==
    DebiasReturned => \A w \in Vocab : IsUnit(DebiasedStore[w])

\* C6, as claimed: after an identification that succeeded, the cosine of
\* vector(positive_end) - vector(negative_end) with the direction is >= 0.
C6_CosineNonNegative ==
    (Ended("identify") /\ last.error = "")
        => LET c == cosine_similarity(VSub(model[positive_end], model[negative_end]),
                                      direction)
           IN  IsFinite(c) /\ c >= 0

\* the cosine of the ends' difference with the raw direction is defined
CosineDefined ==
    /\ ~VecHasNaN(VSub(model[last.pos], model[last.neg]))
    /\ VSub(model[last.pos], model[last.neg]) # <<0, 0>>
    /\ ~VecHasNaN(last.raw)
    /\ last.raw # <<0, 0>>

\* C6, amended: after an identification that succeeded, the ends given are
\* recorded, the direction is the raw one negated exactly when the cosine of
\* vector(positive_end) - vector(negative_end) with it is negative, and the
\* cosine with the stored direction is >= 0 whenever it is defined; when the
\* two end vectors are equal, or the raw direction is zero or NaN, the cosine
\* is NaN and the raw direction is stored as it is.
C6_SignCalibrated ==
    (Ended("identify") /\ last.error = "")
        => LET c == cosine_similarity(VSub(model[positive_end], model[negative_end]),
                                      direction)
           IN  /\ positive_end = last.pos
               /\ negative_end = last.neg
               /\ direction = IF FLt(last.ends_diff_projection, 0)
                              THEN VNeg(last.raw) ELSE last.raw
               /\ CosineDefined => IsFinite(c) /\ c >= 0
               /\ ~CosineDefined => IsNaN(c) /\ direction = last.raw

\* an identification negated the raw direction
C6_Witness ==
    /\ Ended("identify") /\ last.error = ""
    /\ FLt(last.ends_diff_projection, 0)
    /\ direction = VNeg(last.raw)
    /\ cosine_similarity(VSub(model[positive_end], model[negative_end]), direction) > 0

\* the words the last debias call neutralized
Neutralized == {events[i][2] : i \in {j \in 1..Len(events) : events[j][1] = "neutralize"}}

\* the projection of the word on the direction, in the debiased store
ProjectionOf(w) == project_on_direction(DebiasedStore, direction, w).value

\* C7, as claimed: after debias with method neutralize and a unit direction,
\* the projection on the direction of every word of the list is 0 (within
\* rounding).
C7_NeutralizedProjectZero ==
    (DebiasReturned /\ last.method = "neutralize" /\ IsUnit(direction))
        => \A w \in Neutralized : NearZero(ProjectionOf(w))

\* the word had a component orthogonal to the direction when debias began
HadOrthogonalPart(w) ==
    /\ ~VecHasNaN(pre.model[w])
    /\ reject_vector(pre.model[w], direction) # <<0, 0>>

\* the projection of the neutralized word is 0 within rounding: the error
\* of its rejected vector, of the order of the tolerance times the length of
\* the word's vector, is magnified by the renormalization, which divides by
\* the length of the rejected vector
Negligible(w) ==
    LET p == ProjectionOf(w)
        rejected == reject_vector(pre.model[w], direction)
    IN  /\ IsFinite(p)
        /\ Abs(p) * Norm(rejected) <= Accumulated * (Norm(pre.model[w]) + Scale)

\* C7, amended: after debias with method neutralize and a unit direction, the
\* projection on the direction is 0 (within rounding, as the renormalization
\* magnifies it) of every word of the list whose vector was not parallel to
\* the direction.
C7_NeutralizedOrthogonal ==
    (DebiasReturned /\ last.method = "neutralize" /\ IsUnit(direction))
        => \A w \in Neutralized : HadOrthogonalPart(w) => Negligible(w)

\* a word with parts along and across the direction was neutralized
C7_Witness ==
    /\ DebiasReturned /\ last.method = "neutralize" /\ IsUnit(direction)
    /\ \E w \in Neutralized :
          /\ HadOrthogonalPart(w)
          /\ ~Small(project_on_direction(pre.model, direction, w).value)
          /\ Negligible(w) /\ NearZero(ProjectionOf(w))

\* the last equality set had two members, both equalized
PairEqualized ==
    /\ DebiasReturned /\ last.method = "hard"
    /\ Len(frame.eq_set) = 2 /\ frame.eq_set[1] # frame.eq_set[2]

\* the two equalized vectors mirror each other across the rejected center
Mirrored ==
    LET a == DebiasedStore[frame.eq_set[1]]
        b == DebiasedStore[frame.eq_set[2]]
    IN  /\ ~VecHasNaN(a) /\ ~VecHasNaN(b)
        /\ Small(Dot(a, direction) + Dot(b, direction))
        /\ Alike(reject_vector(a, direction), reject_vector(b, direction))
        /\ Alike(reject_vector(a, direction), frame.eq_rejected_center)
        /\ Alike(reject_vector(b, direction), frame.eq_rejected_center)

\* C8, as claimed: equalizing any 2-member set leaves two vectors with
\* opposite projections of equal magnitude and the same orthogonal part, the
\* rejected part of the set's centroid.
C8_EqualizedMirrored == PairEqualized => Mirrored

\* the two normalized members are unit vectors whose projections on the
\* direction differ
ProjectionsDiffer ==
    /\ IsUnit(frame.eq_vectors[1]) /\ IsUnit(frame.eq_vectors[2])
    /\ ~Small(Dot(frame.eq_vectors[1], direction)
              - Dot(frame.eq_vectors[2], direction))

\* C8, amended: with a unit direction, equalizing a 2-member set of finite
\* non-zero vectors whose projections on the direction differ leaves two vectors with
\* opposite projections of equal magnitude and the same orthogonal part, the
\* rejected part of the set's centroid.
C8_EqualizedMirroredIfDistinct ==
    (PairEqualized /\ IsUnit(direction) /\ ProjectionsDiffer) => Mirrored

\* a pair with different projections was equalized to two different vectors
C8_Witness ==
    /\ PairEqualized /\ IsUnit(direction) /\ ProjectionsDiffer /\ Mirrored
    /\ Dot(DebiasedStore[frame.eq_set[1]], direction) > Accumulated
    /\ frame.eq_rejected_center # <<0, 0>>

\* the kinds of the events, in order
Kinds == [i \in 1..Len(events) |-> events[i][1]]

\* every neutralize event, then init_sims, come before event i
AfterWholeNeutralize(i) ==
    \E k \in 1..(i - 1) :
        /\ Kinds[k] = "init_sims"
        /\ \A j \in 1..Len(events) : Kinds[j] = "neutralize" => j < k

\* what _equalize wrote for member i of the last equality set
EqualizedMember(i) ==
    LET center == Mean(frame.eq_vectors)
        parts == project_reject_vector(center, direction)
        projected_part == normalize(VSub(project_vector(frame.eq_vectors[i], direction),
                                         parts[1]))
    IN  EqualizedVector(parts[2], Scaling(parts[2]), projected_part)

\* C9: debias with method hard runs the whole neutralize step (every neutral
\* word replaced, then the store renormalized) before the first equalize
\* update, so a word of both lists ends with its equalized vector (as the
\* closing renormalization leaves it); debias with method neutralize makes no
\* equalize update.
C9_NeutralizeThenEqualize ==
    /\ \A i \in 1..Len(events) :
          Kinds[i] = "equalize"
              => /\ frame.method = "hard"
                 /\ frame.neutral_words = <<>>
                 /\ AfterWholeNeutralize(i)
    /\ pc = "equalize" => frame.method = "hard" /\ frame.neutral_words = <<>>
    /\ (DebiasReturned /\ last.method \in {"hard", "neutralize"})
          => frame.neutral_words = <<>> /\ "init_sims" \in {Kinds[i] : i \in 1..Len(events)}
    /\ PairEqualized
          => \A i \in 1..2 :
                DebiasedStore[frame.eq_set[i]]
                    = VDivScalar(EqualizedMember(i), Norm(EqualizedMember(i)))

\* a word of both lists was neutralized, then equalized to another vector
C9_Witness ==
    /\ PairEqualized /\ IsUnit(direction) /\ ProjectionsDiffer
    /\ \E w \in Neutralized :
          /\ w = frame.eq_set[1]
          /\ IsUnit(DebiasedStore[w])
          /\ ~Small(ProjectionOf(w))
          /\ HadOrthogonalPart(w)

\* the positions of the vocabulary that hold no seed word, up to position i
NonSeedUpTo(i, seed) == {j \in 1..i : vocab[j] \notin seed}

Min(a, b) == IF a <= b THEN a ELSE b

\* C10: the training set holds, in vocabulary order, every vocabulary word of
\* seed_specific_words, labeled true, and the first min(max_non_specific_examples,
\* number of non-seed words) non-seed words, labeled false, and nothing else.
C10_TrainingSet ==
    Ended("learn_full_specific_words")
        => LET data == last.data
               seed == last.seed
               Kept(i) == \/ vocab[i] \in seed
                          \/ Cardinality(NonSeedUpTo(i, seed)) <= last.cap
               kept == {i \in 1..Len(vocab) : Kept(i)}
               At(w) == CHOOSE i \in 1..Len(vocab) : vocab[i] = w
           IN  /\ Len(data) = Cardinality(kept)
               /\ {data[k][1] : k \in 1..Len(data)} = {vocab[i] : i \in kept}
               /\ \A k \in 1..Len(data) : data[k][2] = (data[k][1] \in seed)
               /\ \A k \in 1..(Len(data) - 1) : At(data[k][1]) < At(data[k + 1][1])
               /\ Cardinality({k \in 1..Len(data) : ~data[k][2]})
                     = Min(last.cap, Cardinality(NonSeedUpTo(Len(vocab), seed)))

\* a seed word met after the cap was reached is kept, the word before it dropped
C10_Witness ==
    /\ Ended("learn_full_specific_words")
    /\ last.cap = 0
    /\ last.seed = {vocab[2]}
    /\ last.data = <<<<vocab[2], TRUE>>>>

\* the words of the events, in order
EventWords == [i \in 1..Len(events) |-> events[i][2]]

RECURSIVE RejectedInTurn(_, _, _)
\* the store m after the vector of each word of ws, in turn, was replaced by
\* its rejected vector
RejectedInTurn(m, ws, dir) ==
    IF ws = <<>> THEN m
    ELSE RejectedInTurn(update_word_vector(m, Head(ws), reject_vector(m[Head(ws)], dir)),
                        Tail(ws), dir)

\* the next word of the running in-place _neutralize is absent from the store
AbsentWordNext ==
    /\ pc = "neutralize" /\ frame.inplace
    /\ frame.neutral_words # <<>>
    /\ Head(frame.neutral_words) \notin Vocab

\* an in-place debias failed at a word of its neutral_words
FailedAtNeutralWord ==
    /\ Ended("debias") /\ last.inplace /\ last.error = "KeyError"
    /\ last.method \in {"neutralize", "hard"}
    /\ frame.neutral_words # <<>>

\* the state an in-place debias leaves when it failed at position k of
\* neutral_words: the k - 1 words before it are the events, all neutralize
\* events; the store is the one the call began with, with those words'
\* vectors replaced in turn by their rejected vectors; nothing else changed
FailedAfterPrefix ==
    FailedAtNeutralWord
        => /\ Head(frame.neutral_words) \notin Vocab
           /\ \A i \in 1..Len(events) :
                 Kinds[i] = "neutralize" /\ EventWords[i] \in Vocab
           /\ model = RejectedInTurn(pre.model, EventWords, pre.direction)
           /\ \A w \in Vocab \ {EventWords[i] : i \in 1..Len(events)} :
                 model[w] = pre.model[w]
           /\ direction = pre.direction
           /\ positive_end = pre.positive_end
           /\ negative_end = pre.negative_end
           /\ copied = NoCopy

\* the step of an in-place _neutralize at an absent word ends the call with
\* the KeyError, and writes nothing
FailsAtAbsentWord ==
    AbsentWordNext
        => /\ pc' = "idle"
           /\ last'.op = "debias" /\ last'.error = "KeyError"
           /\ UNCHANGED <<model, direction, positive_end, negative_end, frame,
                          events>>

\* C11: debias(inplace=True) with method neutralize or hard, at the first
\* word of neutral_words that is absent from the store (position k), fails
\* with the KeyError instead of passing over the word, and then exactly the
\* words before position k have had their vectors replaced by their rejected
\* vectors, every other vector is as it was, no init_sims has run, no
\* equalize update was made, and the direction and its ends are as they were.
C11_FailsAtAbsentWord == []FailedAfterPrefix /\ [][FailsAtAbsentWord]_vars

\* a hard debias in place neutralized its first word, changing its vector,
\* and failed at its second, with equality sets still to come
C11_Witness ==
    /\ FailedAtNeutralWord /\ last.method = "hard"
    /\ Len(events) = 1
    /\ model[EventWords[1]] # pre.model[EventWords[1]]
    /\ model = RejectedInTurn(pre.model, EventWords, direction)
    /\ frame.equality_sets # <<>>

====
